---- MODULE Spec2Model ----
(***************************************************************************)
(* The task-dependency orchestration engine of multi_agent_adrg:           *)
(* TaskResult, Agent.execute_task, Task.can_execute and Crew.kickoff of    *)
(* src/multi_agent_adrg/agent_framework.py, as a state machine.            *)
(*                                                                         *)
(* Task IDs are the positions 1..n of the tasks in the list given to Crew  *)
(* (a Python dict iterates in insertion order); the IDs n+1..MaxTasks are  *)
(* IDs that name no task.  Python dicts are functions whose DOMAIN is the  *)
(* key set; Python lists are sequences.                                    *)
(***************************************************************************)
EXTENDS Naturals, Sequences, FiniteSets, TLC

\* The largest number of tasks given to a Crew.
MaxTasks == 3

\* Every ID a dependencies list or a skip_flags map may name.
Ids == 1..MaxTasks

None == "None"
EmptyDict == << >>

\* The None default of TaskResult's metadata field
NoMetadata == [none |-> TRUE]

\* No exception has left kickoff
NoError == [kind |-> "none"]

\* TaskStatus
PENDING == "pending"
RUNNING == "running"
COMPLETED == "completed"
FAILED == "failed"
SKIPPED == "skipped"

\* The output_path values an action may put in its descriptor: two paths
\* (every action of the pipeline returns a pathlib.Path, which is truthy) and
\* the empty string, which line 223 reads as false.
OutputPaths == {"out_a", "out_b", ""}

\* What an action returns: a dict with or without the key output_path.
Descriptors == {EmptyDict} \cup {[output_path |-> p] : p \in OutputPaths}

\* What a call of task.action(context) does: it returns a descriptor or
\* raises an exception with a message.
Outcomes ==
    {[kind |-> "return", descriptor |-> d, message |-> None] : d \in Descriptors}
    \cup {[kind |-> "raise", descriptor |-> EmptyDict, message |-> "boom"]}

\* dict.get(key), whose default is None
Get(d, k) == IF k \in DOMAIN d THEN d[k] ELSE None

\* Python truth of an output_path value
Truthy(v) == v # None /\ v # ""

\* d[k] = v on a dict
Put(d, k, v) == (k :> v) @@ d

\* x in list
In(x, list) == \E k \in 1..Len(list) : list[k] = x

\* set(list)
ToSet(list) == {list[k] : k \in 1..Len(list)}

\* TaskResult without __post_init__: a None metadata stays None
MutTaskResultKeepsNone(task_id, status, output_path, error, metadata) ==
    [task_id |-> task_id, status |-> status, output_path |-> output_path,
     error |-> error, metadata |-> metadata]

\* TaskResult(task_id, status, output_path=None, error=None, metadata=None),
\* with __post_init__ turning a None metadata into {}.
TaskResult(task_id, status, output_path, error, metadata) ==
    [task_id |-> task_id, status |-> status, output_path |-> output_path,
     error |-> error,
     metadata |-> IF metadata = NoMetadata THEN EmptyDict ELSE metadata]

\* Task(task_id, ..., dependencies, skippable): status starts PENDING.
Task(task_id, dependencies, skippable) ==
    [task_id |-> task_id, dependencies |-> dependencies,
     skippable |-> skippable, status |-> PENDING]

VARIABLES
    tasks,             \* Crew.tasks: the tasks in list order, task k has ID k
    skip_flags,        \* kickoff's skip_flags argument
    context,           \* Crew.context
    results,           \* Crew.results
    completed_tasks,   \* kickoff's local list
    failed_tasks,      \* kickoff's local list
    executable_tasks,  \* kickoff's local list, one per pass
    pc,                \* where kickoff is
    i,                 \* position of the scan loop (line 186) in tasks
    j,                 \* position of the execution loop (line 216)
    raised,            \* the RuntimeError kickoff raised, or NoError
    invoked            \* history: the IDs whose action was called, in order

vars == <<tasks, skip_flags, context, results, completed_tasks, failed_tasks,
          executable_tasks, pc, i, j, raised, invoked>>

\* self.tasks.keys()
TaskIds == 1..Len(tasks)

\* can_execute with any() written for all()
MutCanExecuteAny(task, completed) ==
    task.dependencies = {} \/ \E dep \in task.dependencies : In(dep, completed)

\* can_execute that ignores the dependencies
MutCanExecuteAlways(task, completed) == TRUE

\* can_execute with "not in" written for "in"
MutCanExecuteNegated(task, completed) ==
    \A dep \in task.dependencies : ~In(dep, completed)

\* Task.can_execute: all(dep in completed_tasks for dep in self.dependencies)
can_execute(task, completed) ==
    \A dep \in task.dependencies : In(dep, completed)

\* execute_task reading result['output_path'] for result.get('output_path'):
\* a descriptor without the key raises KeyError inside the try block
MutExecuteTaskIndexes(task, outcome) ==
    IF outcome.kind = "return" /\ "output_path" \in DOMAIN outcome.descriptor
    THEN TaskResult(task.task_id, COMPLETED, outcome.descriptor["output_path"],
                    None, outcome.descriptor)
    ELSE TaskResult(task.task_id, FAILED, None,
                    IF outcome.kind = "raise" THEN outcome.message ELSE "KeyError",
                    NoMetadata)

\* Agent.execute_task: the action's outcome turned into a TaskResult
execute_task(task, outcome) ==
    IF outcome.kind = "return"
    THEN TaskResult(task.task_id, COMPLETED,
                    Get(outcome.descriptor, "output_path"), None,
                    outcome.descriptor)
    ELSE TaskResult(task.task_id, FAILED, None, outcome.message, NoMetadata)

\* Line 187 testing the completed list only
MutResolvedIgnoresFailed(task_id, completed, failed) == In(task_id, completed)

\* Line 187 testing the failed list only
MutResolvedIgnoresCompleted(task_id, completed, failed) == In(task_id, failed)

\* Lines 187-188 missing
MutResolvedNever(task_id, completed, failed) == FALSE

\* Line 187: the scan passes over a task that is completed or failed
AlreadyResolved(task_id, completed, failed) ==
    In(task_id, completed) \/ In(task_id, failed)

\* Line 191 looking the task up under a key the map never holds
MutSkipNeverRequested(flags, task_id) == FALSE

\* Line 191 moved under line 202: a skip request is honoured only for a
\* task whose dependencies are satisfied
MutSkipAfterDependencies(flags, task_id) ==
    flags[task_id] /\ can_execute(tasks[task_id], completed_tasks)

\* Line 191: skip_flags.get(task_id, False)
SkipRequested(flags, task_id) == flags[task_id]

\* Line 221 run for a failed result too
MutCompletedAfterAny(completed, result) == Append(completed, result.task_id)

\* Lines 220-221: the completed list after a result
CompletedAfter(completed, result) ==
    IF result.status = COMPLETED THEN Append(completed, result.task_id)
    ELSE completed

\* Line 218 moved under line 220: only a COMPLETED result is stored
MutResultsAfterCompletedOnly(res, result) ==
    IF result.status = COMPLETED THEN Put(res, result.task_id, result) ELSE res

\* Line 218: self.results[task.task_id] = result
ResultsAfter(res, result) == Put(res, result.task_id, result)

\* Line 229 missing: a failure is not recorded in the failed list
MutFailedAfterNever(failed, result) == failed

\* Lines 228-229: the failed list after a result
FailedAfter(failed, result) ==
    IF result.status = FAILED THEN Append(failed, result.task_id)
    ELSE failed

\* Lines 224-227 run for every result
MutContextAfterAny(ctx, result) ==
    Put(ctx, result.task_id,
        [output_path |-> result.output_path, metadata |-> result.metadata])

\* Lines 223-227 missing: no output is handed on
MutContextAfterNever(ctx, result) == ctx

\* Line 223 testing "is not None" for truth
MutContextAfterNotNone(ctx, result) ==
    IF result.status = COMPLETED /\ result.output_path # None
    THEN Put(ctx, result.task_id,
             [output_path |-> result.output_path, metadata |-> result.metadata])
    ELSE ctx

\* Lines 220-227: the context after a result
ContextAfter(ctx, result) ==
    IF result.status = COMPLETED /\ Truthy(result.output_path)
    THEN Put(ctx, result.task_id,
             [output_path |-> result.output_path, metadata |-> result.metadata])
    ELSE ctx

\* Line 230 without the skippable test: every failure ends the run
MutCriticalAlways(task, result) == result.status = FAILED

\* Lines 230-235 missing: no failure ends the run
MutCriticalNever(task, result) == FALSE

\* Lines 228-230: a failure that ends the run
Critical(task, result) ==
    result.status = FAILED /\ ~task.skippable

\* Crew.__init__ on a list of at most MaxTasks tasks
Init ==
    /\ \E n \in 0..MaxTasks :
         \E d \in [1..n -> SUBSET Ids], s \in [1..n -> BOOLEAN] :
             tasks = [k \in 1..n |-> Task(k, d[k], s[k])]
    /\ skip_flags = [k \in Ids |-> FALSE]
    /\ context = EmptyDict
    /\ results = EmptyDict
    /\ completed_tasks = << >>
    /\ failed_tasks = << >>
    /\ executable_tasks = << >>
    /\ pc = "idle"
    /\ i = 0
    /\ j = 0
    /\ raised = NoError
    /\ invoked = << >>

\* kickoff(skip_flags), lines 166-168. A key absent from the map reads as
\* False (skip_flags.get(task_id, False)).
Kickoff ==
    /\ pc = "idle"
    /\ skip_flags' \in [Ids -> BOOLEAN]
    /\ completed_tasks' = << >>
    /\ failed_tasks' = << >>
    /\ pc' = "while"
    /\ UNCHANGED <<tasks, context, results, executable_tasks, i, j, raised, invoked>>

\* The loop condition, line 182, and the return of line 246
WhileTest ==
    /\ pc = "while"
    /\ IF Len(completed_tasks) + Len(failed_tasks) < Len(tasks)
       THEN /\ pc' = "scan"
            /\ executable_tasks' = << >>
            /\ i' = 1
       ELSE /\ pc' = "returned"
            /\ UNCHANGED <<executable_tasks, i>>
    /\ UNCHANGED <<tasks, skip_flags, context, results, completed_tasks,
                   failed_tasks, j, raised, invoked>>

\* One iteration of the scan, lines 186-203
ScanTask ==
    /\ pc = "scan"
    /\ i <= Len(tasks)
    /\ i' = i + 1
    /\ IF AlreadyResolved(i, completed_tasks, failed_tasks)
       THEN UNCHANGED <<completed_tasks, results, executable_tasks>>
       ELSE IF SkipRequested(skip_flags, i)
       THEN /\ completed_tasks' = Append(completed_tasks, i)
            /\ results' = Put(results, i, TaskResult(i, SKIPPED, None, None, NoMetadata))
            /\ UNCHANGED executable_tasks
       ELSE IF can_execute(tasks[i], completed_tasks)
       THEN /\ executable_tasks' = Append(executable_tasks, i)
            /\ UNCHANGED <<completed_tasks, results>>
       ELSE UNCHANGED <<completed_tasks, results, executable_tasks>>
    /\ UNCHANGED <<tasks, skip_flags, context, failed_tasks, pc, j, raised, invoked>>

\* Line 207 with the difference taken the wrong way round
MutRemainingReversed ==
    (ToSet(completed_tasks) \cup ToSet(failed_tasks)) \ TaskIds

\* set(self.tasks.keys()) - set(completed_tasks) - set(failed_tasks), line 207
remaining_tasks ==
    (TaskIds \ ToSet(completed_tasks)) \ ToSet(failed_tasks)

\* After the scan, lines 206-213
CheckStuck ==
    /\ pc = "scan"
    /\ i > Len(tasks)
    /\ IF executable_tasks = << >>
       THEN IF remaining_tasks # {}
            THEN /\ raised' = [kind |-> "stuck", remaining_tasks |-> remaining_tasks]
                 /\ pc' = "raised"
                 /\ UNCHANGED j
            ELSE /\ pc' = "returned"
                 /\ UNCHANGED <<raised, j>>
       ELSE /\ pc' = "exec"
            /\ j' = 1
            /\ UNCHANGED raised
    /\ UNCHANGED <<tasks, skip_flags, context, results, completed_tasks,
                   failed_tasks, executable_tasks, i, invoked>>

\* The execution loop recording the result's status on the Task as well
MutTasksAfterSetsStatus(ts, result) ==
    [ts EXCEPT ![result.task_id].status = result.status]

\* Lines 216-235 assign no attribute of the Task: self.tasks after a result
TasksAfter(ts, result) == ts

\* The body of the execution loop, lines 217-235, for one outcome of the
\* action of the task at position j
Execute(outcome) ==
    LET task == tasks[executable_tasks[j]]
        result == execute_task(task, outcome)
    IN /\ invoked' = Append(invoked, task.task_id)
       /\ results' = ResultsAfter(results, result)
       /\ completed_tasks' = CompletedAfter(completed_tasks, result)
       /\ context' = ContextAfter(context, result)
       /\ failed_tasks' = FailedAfter(failed_tasks, result)
       /\ IF Critical(task, result)
          THEN /\ raised' = [kind |-> "critical",
                             task_id |-> task.task_id,
                             error |-> result.error]
               /\ pc' = "raised"
               /\ UNCHANGED j
          ELSE /\ j' = j + 1
               /\ UNCHANGED <<raised, pc>>
       /\ tasks' = TasksAfter(tasks, result)
       /\ UNCHANGED <<skip_flags, executable_tasks, i>>

\* One iteration of the execution loop, lines 216-235
ExecuteTask ==
    /\ pc = "exec"
    /\ j <= Len(executable_tasks)
    /\ \E outcome \in Outcomes : Execute(outcome)

\* The end of the execution loop: back to the loop condition
EndPass ==
    /\ pc = "exec"
    /\ j > Len(executable_tasks)
    /\ pc' = "while"
    /\ UNCHANGED <<tasks, skip_flags, context, results, completed_tasks,
                   failed_tasks, executable_tasks, i, j, raised, invoked>>

Next ==
    \/ Kickoff
    \/ WhileTest
    \/ ScanTask
    \/ CheckStuck
    \/ ExecuteTask
    \/ EndPass

Spec == Init /\ [][Next]_vars

\* kickoff is one sequential call: while it has a step to take it takes it
\* (every action is taken to terminate).
FairSpec == Spec /\ WF_vars(Next)

\* The largest number of tasks of a Crew on which kickoff is called again
MaxRerunTasks == 2

\* Crew.__init__ on a list of at most MaxRerunTasks tasks
RerunInit == Init /\ Len(tasks) <= MaxRerunTasks

\* kickoff called again on the same Crew after an earlier call returned or
\* raised: lines 166-168 make new locals, self.context and self.results are
\* assigned in __init__ only (lines 153-154) and are what the earlier call
\* left. invoked restarts: it is the history of the current call.
Rekickoff ==
    /\ pc \in {"returned", "raised"}
    /\ skip_flags' \in [Ids -> BOOLEAN]
    /\ completed_tasks' = << >>
    /\ failed_tasks' = << >>
    /\ executable_tasks' = << >>
    /\ i' = 0
    /\ j' = 0
    /\ raised' = NoError
    /\ invoked' = << >>
    /\ pc' = "while"
    /\ UNCHANGED <<tasks, context, results>>

RerunNext ==
    \/ Next
    \/ Rekickoff

\* A Crew on which kickoff may be called any number of times, one call
\* after the other
RerunSpec == RerunInit /\ [][RerunNext]_vars

(***************************************************************************)
(* The pipeline built by main() of src/multi_agent_adrg/main.py. The tasks *)
(* are numbered in the order of the list given to Crew: 1 extract_metadata,*)
(* 2 extract_protocol, 3 analyze_tlf_scripts, 4 extract_adam_info,         *)
(* 5 analyze_adam_scripts, 6 extract_renv, 7 generate_pkg_descriptions,    *)
(* 8 assemble_document, 9 answer_questions (with --fill-questions).        *)
(***************************************************************************)

\* The dependency between analyze_tlf_scripts and extract_adam_info declared
\* on the wrong one of the two
MutPipelineDependenciesReversed ==
    <<{}, {}, {4}, {}, {}, {}, {6}, {1, 2, 3, 4, 5, 7}, {8, 2, 4, 5}>>

\* The dependencies argument of each Task of the pipeline
PipelineDependencies ==
    <<{}, {}, {}, {3}, {}, {}, {6}, {1, 2, 3, 4, 5, 7}, {8, 2, 4, 5}>>

\* The tasks main() gives to Crew; answer_questions is the only one built
\* with skippable=True
PipelineTasks(fill_questions) ==
    [k \in 1..(IF fill_questions THEN 9 ELSE 8) |->
        Task(k, PipelineDependencies[k], k = 9)]

\* The seven keys of the skip_flags map of main()
PipelineSkipKeys == 1..7

\* The context keys an action indexes without a fallback:
\* context["analyze_tlf_scripts"] (line 194), context["extract_renv"]
\* (line 291), context["assemble_document"] (line 436). The action of
\* assemble_document reads context through get_output_path only, which
\* falls back to the configured path (lines 330-336).
ContextReads ==
    <<{}, {}, {}, {3}, {}, {}, {6}, {}, {8}>>

\* The configured output path each action returns under output_path
ConfiguredPaths ==
    <<"sdtm_medra_version.out", "protocol_retrieve.out", "var_filter.out",
      "adam_info.out", "adam_scripts_analyzer.out", "renv_to_table.out",
      "pkg_describer.out", "template.output">>

\* What the action of pipeline task k does when called with ctx: indexing
\* ctx with an absent key raises KeyError; otherwise the action returns its
\* descriptor (answer_questions hands on the path of assemble_document) or
\* an external step raises. The keys deps_path and inventory_path that
\* extract_adam_info adds to its descriptor are read by nothing.
PipelineOutcomes(k, ctx) ==
    IF ~(ContextReads[k] \subseteq DOMAIN ctx)
    THEN {[kind |-> "raise", descriptor |-> EmptyDict, message |-> "KeyError"]}
    ELSE {[kind |-> "return",
           descriptor |-> [output_path |->
               IF k = 9 THEN ctx[8].output_path ELSE ConfiguredPaths[k]],
           message |-> None],
          [kind |-> "raise", descriptor |-> EmptyDict, message |-> "boom"]}

\* main(), lines 539-566: the Crew of the pipeline, with or without
\* --fill-questions
PipelineInit ==
    /\ \E fill_questions \in BOOLEAN : tasks = PipelineTasks(fill_questions)
    /\ skip_flags = [k \in 1..9 |-> FALSE]
    /\ context = EmptyDict
    /\ results = EmptyDict
    /\ completed_tasks = << >>
    /\ failed_tasks = << >>
    /\ executable_tasks = << >>
    /\ pc = "idle"
    /\ i = 0
    /\ j = 0
    /\ raised = NoError
    /\ invoked = << >>

\* crew.kickoff(skip_flags=skip_flags), lines 569-581: each of the seven
\* keys is true or false; the IDs of assemble_document and answer_questions
\* are not keys of the map and read as False.
PipelineKickoff ==
    /\ pc = "idle"
    /\ skip_flags' \in {f \in [1..9 -> BOOLEAN] :
                          \A k \in 1..9 : f[k] => k \in PipelineSkipKeys}
    /\ completed_tasks' = << >>
    /\ failed_tasks' = << >>
    /\ pc' = "while"
    /\ UNCHANGED <<tasks, context, results, executable_tasks, i, j, raised, invoked>>

\* One iteration of the execution loop, the action being one of the
\* pipeline's
PipelineExecuteTask ==
    /\ pc = "exec"
    /\ j <= Len(executable_tasks)
    /\ \E outcome \in PipelineOutcomes(executable_tasks[j], context) :
         Execute(outcome)

PipelineNext ==
    \/ PipelineKickoff
    \/ WhileTest
    \/ ScanTask
    \/ CheckStuck
    \/ PipelineExecuteTask
    \/ EndPass

PipelineSpec == PipelineInit /\ [][PipelineNext]_vars

(***************************************************************************)
(* Properties                                                              *)
(***************************************************************************)

\* The task whose action the next step of the execution loop invokes
AboutToInvoke == pc = "exec" /\ j <= Len(executable_tasks)
NextTask == tasks[executable_tasks[j]]

HasStatus(t, status) == t \in DOMAIN results /\ results[t].status = status

\* C1: at the moment a task's action is invoked, every ID of its
\* dependencies is in the completed list and has a result whose status is
\* COMPLETED or SKIPPED.
C1_DependenciesCompletedAtInvoke ==
    AboutToInvoke =>
        \A dep \in NextTask.dependencies :
            /\ In(dep, completed_tasks)
            /\ HasStatus(dep, COMPLETED) \/ HasStatus(dep, SKIPPED)

\* A task with one skipped and one completed dependency is about to run.
C1_Witness ==
    /\ AboutToInvoke
    /\ \E a, b \in NextTask.dependencies :
         HasStatus(a, COMPLETED) /\ HasStatus(b, SKIPPED)

\* The scan of the first pass is over
FirstScanDone == pc \in {"exec", "raised"} \/ invoked # << >> \/
                 (pc = "returned" /\ TaskIds # {})

\* C2: a task whose skip flag is true is never invoked, its result is
\* SKIPPED, and once skipped its ID stays in the completed list, where
\* can_execute of a dependent finds it.
C2_SkipState ==
    \A t \in TaskIds :
        skip_flags[t] =>
            /\ ~In(t, invoked)
            /\ t \in DOMAIN results => HasStatus(t, SKIPPED) /\ In(t, completed_tasks)
            /\ FirstScanDone => t \in DOMAIN results
            /\ In(t, completed_tasks) =>
                 \A d \in TaskIds :
                     tasks[d].dependencies = {t} => can_execute(tasks[d], completed_tasks)
C2_SkipStays ==
    \A t \in TaskIds :
        skip_flags[t] /\ In(t, completed_tasks) =>
            In(t, completed_tasks') /\ t \in DOMAIN results' /\ results'[t] = results[t]
C2_SkippedNeverInvoked == []C2_SkipState /\ [][C2_SkipStays]_vars

\* A dependent of a skipped task runs while the skipped task's own
\* dependency was never resolved.
C2_Witness ==
    \E t, d \in TaskIds :
        /\ skip_flags[t] /\ HasStatus(t, SKIPPED)
        /\ tasks[t].dependencies # {}
        /\ tasks[d].dependencies = {t}
        /\ In(d, invoked)

\* C3: when the action of a non-skippable task fails, kickoff raises the
\* critical-task RuntimeError naming the task and its error; no action is
\* invoked after it and no task is completed after it, the tasks selected in
\* the same pass included.
C3_CriticalState ==
    \A t \in TaskIds :
        HasStatus(t, FAILED) /\ ~tasks[t].skippable =>
            /\ pc = "raised"
            /\ raised = [kind |-> "critical", task_id |-> t, error |-> results[t].error]
            /\ invoked[Len(invoked)] = t
C3_CriticalStep ==
    (\E t \in TaskIds : HasStatus(t, FAILED) /\ ~tasks[t].skippable) =>
        invoked' = invoked /\ completed_tasks' = completed_tasks /\ results' = results
C3_CriticalFailureHalts == []C3_CriticalState /\ [][C3_CriticalStep]_vars

\* A non-skippable task failed while a task selected in the same pass was
\* still waiting for its turn, after another task had completed.
C3_Witness ==
    /\ pc = "raised" /\ raised.kind = "critical"
    /\ j < Len(executable_tasks)
    /\ ~In(executable_tasks[j + 1], invoked)
    /\ completed_tasks # << >>

\* kickoff is over: it returned or raised
Ended == pc \in {"returned", "raised"}

SkippableFailed(t) == HasStatus(t, FAILED) /\ tasks[t].skippable

\* A task that is not skip-requested and whose dependencies are all
\* completed or skipped
Runnable(u) ==
    /\ ~skip_flags[u]
    /\ \A dep \in tasks[u].dependencies :
           HasStatus(dep, COMPLETED) \/ HasStatus(dep, SKIPPED)

\* C4 as stated: when a skippable task has failed, no critical-task error
\* is raised for it, and the run does not end before every task whose
\* dependencies are all completed or skipped has been executed.
C4_AsStated ==
    \A t \in TaskIds :
        SkippableFailed(t) =>
            /\ ~(raised.kind = "critical" /\ raised.task_id = t)
            /\ Ended => \A u \in TaskIds : Runnable(u) => In(u, invoked)

\* C4, amended: when a skippable task has failed, its FAILED result is
\* recorded and no critical-task error is raised for it; unless the failure
\* of a non-skippable task ends the run, the run does not end before every
\* task whose dependencies are all completed or skipped has been executed.
C4_SkippableFailureContinues ==
    \A t \in TaskIds :
        SkippableFailed(t) =>
            /\ In(t, failed_tasks)
            /\ raised.kind = "critical" =>
                   raised.task_id # t /\ ~tasks[raised.task_id].skippable
            /\ Ended /\ raised.kind # "critical" =>
                   \A u \in TaskIds : Runnable(u) => In(u, invoked)

\* The run returned although a skippable task failed, and an action was
\* invoked after the failing one.
C4_Witness ==
    /\ pc = "returned"
    /\ \E t \in TaskIds :
         /\ SkippableFailed(t)
         /\ \E k \in 1..Len(invoked) : invoked[k] = t /\ k < Len(invoked)

\* C5: a task that is not skip-requested and has a dependency whose result
\* is FAILED is never executed and has no entry in results; a failed ID is
\* never in the completed list.
C5_DependentOfFailedNeverRuns ==
    /\ \A d \in TaskIds : HasStatus(d, FAILED) => ~In(d, completed_tasks)
    /\ \A u \in TaskIds :
         (~skip_flags[u] /\ \E d \in tasks[u].dependencies : HasStatus(d, FAILED)) =>
             ~In(u, invoked) /\ u \notin DOMAIN results

\* A run went on after a failure and a dependent of the failed task is
\* still without a result.
C5_Witness ==
    /\ Ended
    /\ \E u, d \in TaskIds :
         /\ u # d /\ d \in tasks[u].dependencies
         /\ HasStatus(d, FAILED) /\ ~skip_flags[u]
         /\ \E k \in 1..Len(invoked) : invoked[k] = d /\ k < Len(invoked)

\* The tasks among F that depend on e directly or through tasks of F
RECURSIVE Grow(_, _)
Grow(S, F) ==
    LET more == S \cup {g \in F : tasks[g].dependencies \cap S # {}}
    IN IF more = S THEN S ELSE Grow(more, F)
Dependents(e, F) == Grow({g \in F : e \in tasks[g].dependencies}, F)

NotSkipRequested == {g \in TaskIds : ~skip_flags[g]}

\* C6 as stated: once a skippable task has failed, no task that depends on
\* it through any chain of dependencies and is not skip-requested is
\* executed or given a result.
C6_AsStated ==
    [][\A e \in TaskIds :
         SkippableFailed(e) =>
             \A g \in Dependents(e, TaskIds) \cap NotSkipRequested :
                 /\ In(g, invoked') => In(g, invoked)
                 /\ g \in DOMAIN results' => g \in DOMAIN results]_vars

\* C6, amended: when a skippable task has failed, every task that is not
\* skip-requested and depends on it directly or through a chain of tasks
\* none of which is skip-requested has never been executed and has no
\* result, so it stays unresolved to the end of the run.
C6_StrandedDependents ==
    \A e \in TaskIds :
        SkippableFailed(e) =>
            \A g \in Dependents(e, NotSkipRequested) :
                ~In(g, invoked) /\ g \notin DOMAIN results /\ g \in remaining_tasks

\* A chain e <- f <- g without skip requests is left unresolved at the end
\* of a run in which e failed.
C6_Witness ==
    /\ Ended
    /\ \E e, f, g \in TaskIds :
         /\ SkippableFailed(e)
         /\ e \in tasks[f].dependencies /\ f \in tasks[g].dependencies
         /\ e \notin tasks[g].dependencies
         /\ g \in Dependents(e, NotSkipRequested)
         /\ {f, g} \subseteq remaining_tasks

\* A skippable task has failed and a task that depends on it is not
\* skip-requested
Stranded ==
    \E e, g \in TaskIds :
        SkippableFailed(e) /\ e \in tasks[g].dependencies /\ ~skip_flags[g]

NoCriticalFailure == \A t \in TaskIds : HasStatus(t, FAILED) => tasks[t].skippable

\* The dependents stranded by the skippable failures so far
StrandedSet ==
    UNION {Dependents(e, NotSkipRequested) : e \in {t \in TaskIds : SkippableFailed(t)}}

C7_StuckEnd ==
    /\ pc = "raised"
    /\ NoCriticalFailure =>
           raised.kind = "stuck" /\ StrandedSet \subseteq raised.remaining_tasks

\* C7: a run in which a skippable task fails and a dependent of it is not
\* skip-requested never returns normally and does not loop forever: it ends
\* by raising, and when no non-skippable task failed the error is the
\* stuck-workflow error, whose set holds every stranded dependent.
C7_StrandedRunEndsStuck ==
    /\ [](Stranded => pc # "returned")
    /\ [](Stranded /\ Ended => C7_StuckEnd)
    /\ Stranded ~> C7_StuckEnd

\* The stuck-workflow error was raised for two stranded dependents.
C7_Witness ==
    /\ Stranded /\ NoCriticalFailure
    /\ pc = "raised" /\ raised.kind = "stuck"
    /\ Cardinality(StrandedSet) >= 2

\* C8: context has no key for a task whose result is SKIPPED or FAILED.
C8_NoContextForSkippedOrFailed ==
    \A t \in TaskIds :
        HasStatus(t, SKIPPED) \/ HasStatus(t, FAILED) => t \notin DOMAIN context

\* A skipped task, a failed task and a context entry in one run.
C8_Witness ==
    \E a, b, c \in TaskIds :
        HasStatus(a, SKIPPED) /\ HasStatus(b, FAILED) /\ c \in DOMAIN context

\* How many times the action of t was called
Invocations(t) == Cardinality({k \in 1..Len(invoked) : invoked[k] = t})

\* C9: each task's action is invoked at most once, and a task that has
\* completed or failed is not selected as executable again.
C9_InvokedAtMostOnce ==
    /\ \A t \in TaskIds : Invocations(t) <= 1
    /\ AboutToInvoke =>
         \A k \in j..Len(executable_tasks) : ~In(executable_tasks[k], invoked)

\* A later pass is about to run a dependent of a task completed in an
\* earlier pass, in which another task failed.
C9_Witness ==
    /\ AboutToInvoke
    /\ \E a, b \in TaskIds :
         /\ HasStatus(a, COMPLETED) /\ HasStatus(b, FAILED)
         /\ a \in NextTask.dependencies

\* C10: context only grows: no key is removed and the value under a key is
\* never replaced.
C10_ContextWriteOnce ==
    [][\A t \in DOMAIN context :
         t \in DOMAIN context' /\ context'[t] = context[t]]_vars

\* Two entries written in different passes, with different output paths.
C10_Witness ==
    \E a, b \in DOMAIN context :
        /\ a \in tasks[b].dependencies
        /\ context[a].output_path # context[b].output_path

\* Every dependency names a task of the task set
Closed == \A t \in TaskIds : tasks[t].dependencies \subseteq TaskIds

\* No task depends on itself, directly or through other tasks
Acyclic == \A t \in TaskIds : t \notin Dependents(t, TaskIds)

\* kickoff was called with no skip request
NoSkipRequests == pc # "idle" /\ \A t \in Ids : ~skip_flags[t]

AllResolved == \A t \in TaskIds : In(t, completed_tasks) \/ In(t, failed_tasks)

\* A failed task on which another task depends
FailedWithDependent ==
    \E d, u \in TaskIds : HasStatus(d, FAILED) /\ d \in tasks[u].dependencies

C12_AsStated ==
    Closed /\ Acyclic /\ Ended /\ failed_tasks = << >> =>
        /\ pc = "returned"
        /\ \A t \in TaskIds : HasStatus(t, COMPLETED) \/ HasStatus(t, SKIPPED)
        /\ \A t \in TaskIds : ~skip_flags[t] => In(t, invoked)

\* C13: if a dependencies list names an ID that is not in the task set,
\* kickoff raises before any action is executed.
C13_AsStated ==
    ~Closed => invoked = << >> /\ (Ended => pc = "raised")

\* Within a pass, the tasks of executable_tasks before position j are
\* resolved and were not before they ran, so each pass that reaches the
\* execution loop resolves a task; the two lists never outgrow the task set.
C14_PassProgress ==
    /\ Len(completed_tasks) + Len(failed_tasks) <= Len(tasks)
    /\ pc = "exec" =>
         /\ executable_tasks # << >>
         /\ \A k \in 1..Len(executable_tasks) :
              (k < j) <=> (In(executable_tasks[k], completed_tasks)
                           \/ In(executable_tasks[k], failed_tasks))

CycleMembers == {t \in TaskIds : t \in Dependents(t, NotSkipRequested)}

C16_AsStated ==
    pc = "raised" /\ raised.kind = "stuck" =>
        /\ raised.remaining_tasks = remaining_tasks
        /\ remaining_tasks # {}
        /\ \A u \in remaining_tasks :
             \E dep \in tasks[u].dependencies : ~In(dep, completed_tasks)

C18_ReturnedResults ==
    pc = "returned" =>
        /\ DOMAIN results = TaskIds
        /\ \A t \in TaskIds :
             /\ results[t].task_id = t
             /\ results[t].status \in {COMPLETED, FAILED, SKIPPED}
             /\ results[t].status = FAILED => tasks[t].skippable

\* kickoff returned with a skipped, a failed and a completed task.
C18_Witness ==
    /\ pc = "returned"
    /\ \E a, b, c \in TaskIds :
         HasStatus(a, SKIPPED) /\ HasStatus(b, FAILED) /\ HasStatus(c, COMPLETED)

\* C19: in every stored TaskResult output_path is set only if the status is
\* COMPLETED and error only if it is FAILED; a SKIPPED result has neither
\* and its metadata is empty.
C19_ResultFields ==
    \A t \in DOMAIN results :
        /\ results[t].output_path # None => results[t].status = COMPLETED
        /\ results[t].error # None => results[t].status = FAILED
        /\ results[t].status = SKIPPED =>
               /\ results[t].output_path = None
               /\ results[t].error = None
               /\ results[t].metadata = EmptyDict

\* A pass is running with a skipped task, a failed task and a task that
\* completed with an output path in results.
C19_Witness ==
    /\ pc = "exec"
    /\ \E a, b, c \in DOMAIN results :
         /\ results[a].status = SKIPPED
         /\ results[b].status = FAILED /\ results[b].error # None
         /\ results[c].status = COMPLETED /\ results[c].output_path # None

\* How many times an ID was appended to the completed or the failed list;
\* every write of results[task_id] goes with one such append.
Appends(t) ==
    Cardinality({k \in 1..Len(completed_tasks) : completed_tasks[k] = t})
    + Cardinality({k \in 1..Len(failed_tasks) : failed_tasks[k] = t})

C20_WrittenOnce ==
    \A t \in TaskIds :
        /\ Appends(t) <= 1
        /\ t \in DOMAIN results <=> Appends(t) = 1
C20_Kept ==
    \A t \in DOMAIN results : t \in DOMAIN results' /\ results'[t] = results[t]

\* C20: results[task_id] is written at most once per run, when the task is
\* skipped or executed, and is never replaced or modified afterwards.
C20_ResultsWriteOnce == []C20_WrittenOnce /\ [][C20_Kept]_vars

\* Three results written in three different passes.
C20_Witness ==
    \E a, b, c \in DOMAIN results :
        /\ a \in tasks[b].dependencies /\ b \in tasks[c].dependencies
        /\ In(a, invoked) /\ In(b, invoked) /\ In(c, invoked)
        /\ a # b /\ b # c /\ a # c

\* C21: context has a key for task t exactly when results[t] is COMPLETED
\* with an output_path that line 223 reads as present (neither None nor
\* empty); the entry then holds the result's output_path and metadata. A
\* task that completed without one is in the completed list and has no
\* context entry.
C21_ContextMirrorsResults ==
    /\ DOMAIN context \subseteq TaskIds
    /\ \A t \in TaskIds :
         /\ t \in DOMAIN context <=>
                (HasStatus(t, COMPLETED) /\ Truthy(results[t].output_path))
         /\ t \in DOMAIN context =>
                /\ context[t].output_path = results[t].output_path
                /\ context[t].metadata = results[t].metadata
         /\ HasStatus(t, COMPLETED) => In(t, completed_tasks)

\* A dependent ran after a task that completed with no output_path key and
\* one that completed with an empty one, neither of which has a context
\* entry, while a third task has one.
C21_Witness ==
    \E a, b, c \in TaskIds :
        /\ HasStatus(a, COMPLETED) /\ results[a].output_path = None
        /\ "output_path" \notin DOMAIN results[a].metadata
        /\ a \notin DOMAIN context
        /\ HasStatus(b, COMPLETED) /\ results[b].output_path = ""
        /\ b \notin DOMAIN context
        /\ c \in DOMAIN context /\ {a, b} \subseteq tasks[c].dependencies
        /\ In(c, invoked)

C22_AbortState ==
    pc = "raised" =>
        /\ \A t \in ToSet(completed_tasks) \cup ToSet(failed_tasks) :
             t \in DOMAIN results
        /\ raised.kind = "critical" =>
             /\ HasStatus(raised.task_id, FAILED)
             /\ results[raised.task_id].error = raised.error
             /\ invoked[Len(invoked)] = raised.task_id
C22_AbortStep ==
    pc' = "raised" =>
        /\ \A t \in DOMAIN results :
             t \in DOMAIN results' /\ results'[t] = results[t]
        /\ \A t \in DOMAIN context :
             t \in DOMAIN context' /\ context'[t] = context[t]

\* C22: the step in which kickoff raises (critical-task failure or stuck
\* workflow) removes and changes no results entry and no context entry, so
\* everything written before the abort is on the Crew afterwards; in the
\* critical-task case the FAILED result of the failing task, with the error
\* the exception names, is in results when the error is raised.
C22_NoRollbackOnAbort == []C22_AbortState /\ [][C22_AbortStep]_vars

\* A critical failure ended a run that had skipped one task and completed
\* another with a context entry.
C22_Witness ==
    /\ pc = "raised" /\ raised.kind = "critical"
    /\ \E a, b \in TaskIds :
         /\ HasStatus(a, SKIPPED)
         /\ HasStatus(b, COMPLETED) /\ b \in DOMAIN context
         /\ b \in tasks[raised.task_id].dependencies

\* kickoff has just been entered: a pass that ends always leaves an ID in
\* one of the two lists
RunStart == pc = "while" /\ completed_tasks = << >> /\ failed_tasks = << >>

\* C23: every kickoff run, a second one on the same Crew included, starts
\* with empty completed and failed lists, an empty context and empty
\* results, so that the context passed to an action holds entries written
\* in the current run only.
C23_AsStated ==
    /\ RunStart => context = EmptyDict /\ results = EmptyDict
    /\ AboutToInvoke => DOMAIN context \subseteq ToSet(completed_tasks)

\* C24: in the pipeline of main(), for every combination of the seven skip
\* flags, every action that is executed finds in context each entry it
\* indexes or falls back to the configured path: no action fails with a
\* KeyError because an upstream task was skipped.
C24_AsStated ==
    /\ AboutToInvoke => ContextReads[NextTask.task_id] \subseteq DOMAIN context
    /\ \A t \in TaskIds : HasStatus(t, FAILED) => results[t].error # "KeyError"

\* C28: in the pipeline of main(), with or without --fill-questions, for
\* every combination of the skip flags and every outcome of the actions,
\* kickoff never raises the stuck-workflow error: a run that raises raises
\* the critical-task error of a non-skippable task whose result is FAILED,
\* and a run in which answer_questions failed returns normally, with every
\* other task completed or skipped.
C28_PipelineNeverStuck ==
    /\ raised.kind # "stuck"
    /\ pc = "raised" =>
         /\ raised.kind = "critical"
         /\ ~tasks[raised.task_id].skippable
         /\ HasStatus(raised.task_id, FAILED)
    /\ \A t \in TaskIds : tasks[t].skippable <=> t = 9
    /\ HasStatus(9, FAILED) =>
         /\ pc # "raised"
         /\ Ended => pc = "returned"
         /\ \A t \in 1..8 : HasStatus(t, COMPLETED) \/ HasStatus(t, SKIPPED)

\* The run returned after answer_questions failed, two tasks having been
\* skipped.
C28_Witness ==
    /\ pc = "returned"
    /\ HasStatus(9, FAILED)
    /\ \E a, b \in TaskIds : a # b /\ HasStatus(a, SKIPPED) /\ HasStatus(b, SKIPPED)

\* C25: at the moment a task's action is invoked, the context passed to it
\* holds, for every dependency of the task that completed with an
\* output_path, an entry with exactly that output_path.
C25_DependencyOutputsVisible ==
    AboutToInvoke =>
        \A dep \in NextTask.dependencies :
            HasStatus(dep, COMPLETED) /\ Truthy(results[dep].output_path) =>
                /\ dep \in DOMAIN context
                /\ context[dep].output_path = results[dep].output_path

\* C, which depends on A and B, is about to be invoked while context holds
\* the two different paths A and B returned.
C25_Witness ==
    /\ AboutToInvoke
    /\ \E a, b \in NextTask.dependencies :
         /\ a # b /\ a # NextTask.task_id /\ b # NextTask.task_id
         /\ {a, b} \subseteq DOMAIN context
         /\ context[a].output_path = "out_a" /\ context[b].output_path = "out_b"

C26_PassState ==
    /\ pc \in {"scan", "exec"} =>
         \A k, l \in 1..Len(executable_tasks) :
             /\ k < l => executable_tasks[k] < executable_tasks[l]
             /\ executable_tasks[l] \notin tasks[executable_tasks[k]].dependencies
    /\ pc = "exec" =>
         /\ j - 1 <= Len(invoked)
         /\ \A k \in 1..(j - 1) :
              invoked[Len(invoked) - (j - 1) + k] = executable_tasks[k]
C26_PassStep ==
    /\ pc = "exec" => executable_tasks' = executable_tasks
    /\ invoked' # invoked =>
         pc = "exec" /\ invoked' = Append(invoked, executable_tasks[j])

\* C26: within a pass the executable tasks are executed one at a time in
\* the order of the task list, and the executable list is fixed by the scan:
\* it does not change while the pass executes, and it holds no task that
\* depends on another task of the same pass, so a task that becomes runnable
\* only through a completion of the current pass waits for a later pass.
C26_PassOrderFixed == []C26_PassState /\ [][C26_PassStep]_vars

\* Two tasks of a pass have been executed, and a task that is not in the
\* executable list has become runnable through one of them.
C26_Witness ==
    /\ pc = "exec" /\ j = 3
    /\ \E u \in remaining_tasks :
         /\ ~In(u, executable_tasks)
         /\ ~skip_flags[u]
         /\ can_execute(tasks[u], completed_tasks)
         /\ executable_tasks[1] \in tasks[u].dependencies

\* C27: a skip request comes before the dependency check: once the scan of
\* the first pass has reached a skip-requested task, and so before any
\* action is invoked, the task is SKIPPED and in the completed list,
\* whatever its own dependencies are; a skip flag for an ID that names no
\* task puts nothing in results, context or the lists and satisfies no
\* dependency.
C27_SkipBeforeDependencies ==
    /\ \A t \in TaskIds :
         skip_flags[t] /\ (FirstScanDone \/ (pc = "scan" /\ t < i)) =>
             /\ HasStatus(t, SKIPPED)
             /\ In(t, completed_tasks)
             /\ ~In(t, invoked)
    /\ invoked # << >> => FirstScanDone
    /\ \A x \in Ids \ TaskIds :
         /\ x \notin DOMAIN results /\ x \notin DOMAIN context
         /\ ~In(x, completed_tasks) /\ ~In(x, failed_tasks)
         /\ \A u \in TaskIds :
              x \in tasks[u].dependencies /\ ~skip_flags[u] => ~In(u, invoked)

\* A task that depends on itself and on an ID that names no task, both
\* skip-requested, was skipped, and its dependent was executed.
C27_Witness ==
    \E t, u \in TaskIds, x \in Ids \ TaskIds :
        /\ skip_flags[t] /\ skip_flags[x]
        /\ {t, x} \subseteq tasks[t].dependencies
        /\ HasStatus(t, SKIPPED)
        /\ t \in tasks[u].dependencies /\ In(u, invoked)

\* No ID occurs twice in the list
NoDuplicates(list) ==
    \A k, l \in 1..Len(list) : list[k] = list[l] => k = l

\* C29: the completed list and the failed list hold no ID twice and share
\* none, every ID in them is a task of the task set, and the key set of
\* results is the union of the two lists, so that the sum of their lengths
\* in the loop condition is the number of resolved tasks.
C29_ListsPartitionResolved ==
    /\ NoDuplicates(completed_tasks) /\ NoDuplicates(failed_tasks)
    /\ ToSet(completed_tasks) \cap ToSet(failed_tasks) = {}
    /\ ToSet(completed_tasks) \cup ToSet(failed_tasks) \subseteq TaskIds
    /\ DOMAIN results = ToSet(completed_tasks) \cup ToSet(failed_tasks)
    /\ Len(completed_tasks) + Len(failed_tasks) =
           Cardinality(TaskIds \ remaining_tasks)

\* The loop condition is evaluated with a skipped and a completed task in
\* one list and a failed task in the other.
C29_Witness ==
    /\ pc = "while"
    /\ Len(completed_tasks) = 2 /\ Len(failed_tasks) = 1
    /\ \E a \in ToSet(completed_tasks) : HasStatus(a, SKIPPED)

\* C30: kickoff never writes the status attribute of a Task: it is PENDING
\* in every reachable state, also once the task is skipped, completed or
\* failed; the terminal status is in the TaskResult of results only.
C30_TaskStatusStaysPending ==
    /\ \A t \in TaskIds : tasks[t].status = PENDING
    /\ \A t \in DOMAIN results :
         results[t].status \in {COMPLETED, FAILED, SKIPPED}
         /\ tasks[t].status # results[t].status

\* kickoff returned with a skipped, a completed and a failed task, each
\* still PENDING.
C30_Witness ==
    /\ pc = "returned"
    /\ \E a, b, c \in TaskIds :
         /\ HasStatus(a, SKIPPED) /\ HasStatus(b, COMPLETED) /\ HasStatus(c, FAILED)
         /\ tasks[a].status = PENDING /\ tasks[b].status = PENDING
         /\ tasks[c].status = PENDING

====
